---------------------------- MODULE Spec2Model ----------------------------
(***************************************************************************)
(* Model of src/src/components/Dashboard.tsx: the financial projection     *)
(* (runSimulation), the financial context handed to the advisor            *)
(* (getFinancialContext), the synthetic monthly series and its periodic    *)
(* timer, the usage counters, the load of persisted financial data and     *)
(* the two background saves.                                               *)
(*                                                                         *)
(* JavaScript numbers are modelled as exact values: integers where the     *)
(* code only adds and multiplies integers, reduced fractions [num, den]    *)
(* where it divides (profitMargin, revenue / 12) or uses a decimal         *)
(* literal (1.2, 0.8).  With the literals of this file the doubles agree   *)
(* with the exact values: 100 * 1.2 is the double 120 and 100 * 0.8 the    *)
(* double 80.                                                              *)
(***************************************************************************)
EXTENDS Integers, Sequences, FiniteSets, TLC

VARIABLES
    organizationData,   \* user?.unsafeMetadata?.organizationData
    userProfile,        \* useUserData().userProfile is set
    saveFinancialData,  \* useUserData().saveFinancialData is set
    financialData,      \* useUserData().financialData: the persisted row
    mounted,            \* the component instance is mounted
    mounts,             \* component instances constructed so far
    timers,             \* ids of the intervals the scheduler holds
    interval,           \* the id the mounted instance's effect registered
    inputs,             \* useState<SimulationInputs>
    results,            \* useState<FinancialData | null>
    usageStats,         \* useState({simulations, exports})
    mockData,           \* useState([...8 months...])
    ticks,              \* timer callbacks run so far
    saves,              \* the save promises runSimulation started
    context             \* getFinancialContext() of the last render

vars == <<organizationData, userProfile, saveFinancialData, financialData,
          mounted, mounts, timers, interval, inputs, results, usageStats,
          mockData, ticks, saves, context>>

---------------------------------------------------------------------------
(* Bounds of the model.                                                    *)

\* Run triggers, export triggers and re-mounts a behaviour holds, timer
\* callbacks of the event specifications and of the series specification.
MaxRuns == 1
MaxExports == 1
MaxTicks == 1
MaxMounts == 2
MaxSeriesTicks == 23

---------------------------------------------------------------------------
(* JavaScript values.                                                      *)

\* The value of a missing property or of an optional chain that stops.
Undefined == "undefined"

\* useState<FinancialData | null>(null), and a hook value not yet loaded.
Null == [null |-> TRUE]

Abs(x) == IF x < 0 THEN -x ELSE x

RECURSIVE GCD(_, _)
GCD(a, b) == IF b = 0 THEN a ELSE GCD(b, a % b)

\* The number n / d, d # 0, as a reduced fraction with a positive denominator.
Rat(n, d) ==
    LET g == GCD(Abs(n), Abs(d))
        s == IF d < 0 THEN -1 ELSE 1
    IN  [num |-> (s * n) \div g, den |-> (s * d) \div g]

\* q * k for a fraction q and an integer k.
RatTimes(q, k) == Rat(q.num * k, q.den)

\* Math.floor of a fraction.
Floor(q) == q.num \div q.den

\* The runway field: a finite number or the IEEE value Infinity.
Infinity == [finite |-> FALSE, value |-> 0]
Finite(n) == [finite |-> TRUE, value |-> n]

\* a || b on numbers: 0 (like undefined and null) is falsy.
OrElse(a, b) == IF a # 0 THEN a ELSE b

---------------------------------------------------------------------------
(* Organization profile.                                                   *)

\* organizationData?.organizationType
organizationType(org) ==
    IF org.present THEN org.organizationType ELSE Undefined

\* runSimulation's three scaling constants.
baseMultiplier(org) ==
    IF organizationType(org) = "startup" THEN Rat(12, 10)
    ELSE IF organizationType(org) = "event" THEN Rat(8, 10)
    ELSE Rat(10, 10)

\* Mutant: the salary keyed on the wrong tag.
baseSalary_eventTag(org) ==
    IF organizationType(org) = "event" THEN 70000 ELSE 60000

baseSalary(org) ==
    IF organizationType(org) = "startup" THEN 70000 ELSE 60000

baseFixedCost(org) ==
    IF organizationType(org) = "event" THEN 200000 ELSE 300000

\* getFinancialContext's own copy of the three constants.
contextBaseMultiplier(org) ==
    IF organizationType(org) = "startup" THEN Rat(12, 10)
    ELSE IF organizationType(org) = "event" THEN Rat(8, 10)
    ELSE Rat(10, 10)

contextBaseSalary(org) ==
    IF organizationType(org) = "startup" THEN 70000 ELSE 60000

contextBaseFixedCost(org) ==
    IF organizationType(org) = "event" THEN 200000 ELSE 300000

---------------------------------------------------------------------------
(* The projection and the context.                                         *)

\* Mutant: the multiplier applied a second time to the revenue, as the
\* implementation before the fix did.
newResults_doubleScaled(in, org) ==
    LET assumedQuantity == Floor(RatTimes(baseMultiplier(org), 100))
        revenue == Floor(RatTimes(baseMultiplier(org),
                                  in.productPrice * assumedQuantity))
        expenses == baseFixedCost(org) + (baseSalary(org) * in.employees)
                        + in.marketingSpend + in.miscExpenses
        netProfit == revenue - expenses
        runway == IF expenses > 0
                  THEN Finite(Floor(Rat(in.currentFunds, expenses)))
                  ELSE Infinity
    IN  [revenue |-> revenue,
         expenses |-> expenses,
         netProfit |-> netProfit,
         runway |-> runway,
         profitMargin |-> IF revenue > 0
                          THEN RatTimes(Rat(netProfit, revenue), 100)
                          ELSE Rat(0, 1)]

\* Mutant: the runway guarded by expenses !== 0 instead of expenses > 0.
newResults_zeroTest(in, org) ==
    LET assumedQuantity == Floor(RatTimes(baseMultiplier(org), 100))
        revenue == in.productPrice * assumedQuantity
        expenses == baseFixedCost(org) + (baseSalary(org) * in.employees)
                        + in.marketingSpend + in.miscExpenses
        netProfit == revenue - expenses
        runway == IF expenses # 0
                  THEN Finite(Floor(Rat(in.currentFunds, expenses)))
                  ELSE Infinity
    IN  [revenue |-> revenue,
         expenses |-> expenses,
         netProfit |-> netProfit,
         runway |-> runway,
         profitMargin |-> IF revenue > 0
                          THEN RatTimes(Rat(netProfit, revenue), 100)
                          ELSE Rat(0, 1)]

\* Mutant: the marketing spend subtracted from the expenses.
newResults_marketingSubtracted(in, org) ==
    LET assumedQuantity == Floor(RatTimes(baseMultiplier(org), 100))
        revenue == in.productPrice * assumedQuantity
        expenses == baseFixedCost(org) + (baseSalary(org) * in.employees)
                        - in.marketingSpend + in.miscExpenses
        netProfit == revenue - expenses
        runway == IF expenses > 0
                  THEN Finite(Floor(Rat(in.currentFunds, expenses)))
                  ELSE Infinity
    IN  [revenue |-> revenue,
         expenses |-> expenses,
         netProfit |-> netProfit,
         runway |-> runway,
         profitMargin |-> IF revenue > 0
                          THEN RatTimes(Rat(netProfit, revenue), 100)
                          ELSE Rat(0, 1)]

\* const newResults: FinancialData = {...} of runSimulation.
newResults(in, org) ==
    LET assumedQuantity == Floor(RatTimes(baseMultiplier(org), 100))
        revenue == in.productPrice * assumedQuantity
        expenses == baseFixedCost(org) + (baseSalary(org) * in.employees)
                        + in.marketingSpend + in.miscExpenses
        netProfit == revenue - expenses
        runway == IF expenses > 0
                  THEN Finite(Floor(Rat(in.currentFunds, expenses)))
                  ELSE Infinity
    IN  [revenue |-> revenue,
         expenses |-> expenses,
         netProfit |-> netProfit,
         runway |-> runway,
         profitMargin |-> IF revenue > 0
                          THEN RatTimes(Rat(netProfit, revenue), 100)
                          ELSE Rat(0, 1)]

\* Mutant: the multiplier applied a second time to the context's revenue.
getFinancialContext_doubleScaled(in, org, series) ==
    LET assumedQuantity == Floor(RatTimes(contextBaseMultiplier(org), 100))
        revenue == Floor(RatTimes(contextBaseMultiplier(org),
                                  in.productPrice * assumedQuantity))
        expenses == contextBaseFixedCost(org)
                        + (contextBaseSalary(org) * in.employees)
                        + in.marketingSpend + in.miscExpenses
        netProfit == revenue - expenses
        currentMonthData == series[Len(series)]
    IN  [currentRevenue |-> currentMonthData.revenue,
         projectedRevenue |-> revenue,
         expenses |-> expenses,
         growthRate |-> 15,
         timeHorizon |-> 12,
         cashFlow |-> currentMonthData.revenue - currentMonthData.expenses,
         profitMargin |-> IF revenue > 0
                          THEN RatTimes(Rat(netProfit, revenue), 100)
                          ELSE Rat(0, 1)]

\* getFinancialContext(), reading inputs, organizationData and mockData.
getFinancialContext(in, org, series) ==
    LET assumedQuantity == Floor(RatTimes(contextBaseMultiplier(org), 100))
        revenue == in.productPrice * assumedQuantity
        expenses == contextBaseFixedCost(org)
                        + (contextBaseSalary(org) * in.employees)
                        + in.marketingSpend + in.miscExpenses
        netProfit == revenue - expenses
        currentMonthData == series[Len(series)]
    IN  [currentRevenue |-> currentMonthData.revenue,
         projectedRevenue |-> revenue,
         expenses |-> expenses,
         growthRate |-> 15,
         timeHorizon |-> 12,
         cashFlow |-> currentMonthData.revenue - currentMonthData.expenses,
         profitMargin |-> IF revenue > 0
                          THEN RatTimes(Rat(netProfit, revenue), 100)
                          ELSE Rat(0, 1)]

---------------------------------------------------------------------------
(* Initial values of the component's state.                                *)

\* useState<SimulationInputs>({...}); teamSize 0 stands for a missing one.
initialInputs(org) ==
    [employees |-> OrElse(IF org.present THEN org.teamSize ELSE 0, 5),
     marketingSpend |-> 200000,
     productPrice |-> 2999,
     miscExpenses |-> 150000,
     currentFunds |-> 5000000,
     customParameters |-> <<>>]

InitialSimulations == 12
InitialExports == 5

initialUsageStats ==
    [simulations |-> InitialSimulations, exports |-> InitialExports]

initialMockData ==
    << [month |-> "Jan", revenue |-> 1250000, expenses |-> 875000],
       [month |-> "Feb", revenue |-> 1300000, expenses |-> 900000],
       [month |-> "Mar", revenue |-> 1200000, expenses |-> 850000],
       [month |-> "Apr", revenue |-> 1375000, expenses |-> 950000],
       [month |-> "May", revenue |-> 1450000, expenses |-> 1000000],
       [month |-> "Jun", revenue |-> 1550000, expenses |-> 1050000],
       [month |-> "Jul", revenue |-> 1600000, expenses |-> 1100000],
       [month |-> "Aug", revenue |-> 1750000, expenses |-> 1200000] >>

---------------------------------------------------------------------------
(* The values the environment supplies.                                    *)

NoOrganizationData ==
    [present |-> FALSE, organizationType |-> Undefined, teamSize |-> 0]

\* Every branch of the organization type: the two named tags, another tag,
\* a tag of the wrong case, a missing tag and missing organization data.
OrganizationChoices ==
    {NoOrganizationData}
    \cup [present : {TRUE},
          organizationType : {"startup", "event", "nonprofit", "Startup",
                              Undefined},
          teamSize : {0, 3}]

\* The organizations of the event specifications.
SessionOrganizations ==
    {NoOrganizationData,
     [present |-> TRUE, organizationType |-> "startup", teamSize |-> 3]}

\* Inputs the projection is evaluated on: the defaults, zeros, and negative
\* numbers, which setInputs accepts as it accepts any number.
ProjectionInputs ==
    [employees : {-20, 0, 5},
     marketingSpend : {-300000, 0, 200000},
     productPrice : {-10, 0, 2999},
     miscExpenses : {0, 150000},
     currentFunds : {-1, 0, 5000000},
     customParameters : {<<>>}]

\* Inputs the caller puts in place of the current ones.
EditedInputs ==
    { [employees |-> 8, marketingSpend |-> 0, productPrice |-> 1999,
       miscExpenses |-> 150000, currentFunds |-> 750000,
       customParameters |-> << [key |-> "churn", value |-> 3],
                               [key |-> "tax", value |-> 18] >>] }

\* Rows the persistence hook delivers; a 0 (or missing) column is falsy.
PersistedRows ==
    { [current_funds |-> 900000, employees |-> 2, marketing_spend |-> 0,
       product_price |-> 1500, misc_expenses |-> 0] }

\* One timer callback's Math.random() results, as the perturbation of each
\* point: (Math.random() - 0.5) * 125000 lies in [-62500, 62500) and
\* (Math.random() - 0.5) * 75000 in [-37500, 37500).
RevenueDraws == {-62500, 62499}
ExpenseDraws == {-37500, 37499}

\* The callbacks in which every point draws the same pair of extremes.
Draws ==
    { [i \in 1..8 |-> [revenue |-> r, expenses |-> e]] :
          r \in RevenueDraws, e \in ExpenseDraws }

\* A callback in which neighbouring points draw opposite extremes.
AlternatingDraw ==
    [i \in 1..8 |-> IF i % 2 = 1
                    THEN [revenue |-> -62500, expenses |-> 37499]
                    ELSE [revenue |-> 62499, expenses |-> -37500]]

Max(a, b) == IF a >= b THEN a ELSE b

---------------------------------------------------------------------------
(* Operations.                                                             *)

\* Mutant: the load effect builds the inputs without the previous custom
\* parameters.
loadedInputs_dropsCustomParameters(prev, row) ==
    [currentFunds |-> OrElse(row.current_funds, prev.currentFunds),
     employees |-> OrElse(row.employees, prev.employees),
     marketingSpend |-> OrElse(row.marketing_spend, prev.marketingSpend),
     productPrice |-> OrElse(row.product_price, prev.productPrice),
     miscExpenses |-> OrElse(row.misc_expenses, prev.miscExpenses),
     customParameters |-> <<>>]

\* The inputs setInputs(prev => ...) of the load effect produces.
loadedInputs(prev, row) ==
    [currentFunds |-> OrElse(row.current_funds, prev.currentFunds),
     employees |-> OrElse(row.employees, prev.employees),
     marketingSpend |-> OrElse(row.marketing_spend, prev.marketingSpend),
     productPrice |-> OrElse(row.product_price, prev.productPrice),
     miscExpenses |-> OrElse(row.misc_expenses, prev.miscExpenses),
     customParameters |-> prev.customParameters]

\* Mutant: the perturbation without Math.max(0, ...).
perturbed_unclamped(prevData, draw) ==
    [i \in 1..Len(prevData) |->
        [month |-> prevData[i].month,
         revenue |-> prevData[i].revenue + draw[i].revenue,
         expenses |-> prevData[i].expenses + draw[i].expenses]]

\* prevData.map(item => ...) of the timer callback.
perturbed(prevData, draw) ==
    [i \in 1..Len(prevData) |->
        [month |-> prevData[i].month,
         revenue |-> Max(0, prevData[i].revenue + draw[i].revenue),
         expenses |-> Max(0, prevData[i].expenses + draw[i].expenses)]]

\* The promise chain save(...).then(log).catch(error => console.error(...)).
\* settled: the collaborator's promise; chain: the promise the chain ends
\* in; console: what the handlers printed.
startedSave(kind, payload) ==
    [kind |-> kind, payload |-> payload, settled |-> "pending",
     chain |-> "pending", console |-> "none"]

\* simulationService.saveSimulation(userProfile.id, {...}); the date in the
\* name is left out.
simulationSave(in, org, res) ==
    startedSave("saveSimulation",
        [name |-> "Simulation",
         description |-> IF organizationType(org) = Undefined
                         THEN "General" ELSE organizationType(org),
         inputs |-> in,
         results |-> res])

\* saveFinancialData({...}).
financialDataSave(in, res) ==
    startedSave("saveFinancialData",
        [current_funds |-> in.currentFunds,
         monthly_revenue |-> Rat(res.revenue, 12),
         monthly_expenses |-> Rat(res.expenses, 12),
         employees |-> in.employees,
         marketing_spend |-> in.marketingSpend,
         product_price |-> in.productPrice,
         misc_expenses |-> in.miscExpenses])

\* The chain after the collaborator's promise fulfils: .then logs.
fulfilledSave(s) ==
    [s EXCEPT !.settled = "fulfilled", !.chain = "fulfilled",
              !.console = "log"]

\* The chain after the collaborator's promise rejects: .catch logs the
\* error's message and the chain fulfils.
rejectedSave(s) ==
    [s EXCEPT !.settled = "rejected", !.chain = "fulfilled",
              !.console = "error"]

Init ==
    /\ organizationData \in SessionOrganizations
    /\ userProfile \in BOOLEAN
    /\ saveFinancialData \in BOOLEAN
    /\ financialData = Null
    /\ mounted = TRUE
    /\ mounts = 1
    /\ timers = {1}
    /\ interval = 1
    /\ inputs = initialInputs(organizationData)
    /\ results = Null
    /\ usageStats = initialUsageStats
    /\ mockData = initialMockData
    /\ ticks = 0
    /\ saves = <<>>
    /\ context = getFinancialContext(inputs, organizationData, mockData)

\* The run trigger: onSimulate and the call-to-action button.
runSimulation ==
    /\ mounted
    /\ usageStats.simulations < InitialSimulations + MaxRuns
    /\ LET res == newResults(inputs, organizationData)
       IN  /\ results' = res
           /\ saves' = saves
                \o (IF userProfile
                    THEN << simulationSave(inputs, organizationData, res) >>
                    ELSE <<>>)
                \o (IF saveFinancialData
                    THEN << financialDataSave(inputs, res) >>
                    ELSE <<>>)
    /\ usageStats' =
           [usageStats EXCEPT !.simulations = usageStats.simulations + 1]
    /\ context' = getFinancialContext(inputs, organizationData, mockData)
    /\ UNCHANGED <<organizationData, userProfile, saveFinancialData,
                   financialData, mounted, mounts, timers, interval, inputs,
                   mockData, ticks>>

\* Mutant: the export handler increments the simulations counter.
handleExport_wrongCounter ==
    /\ mounted
    /\ usageStats.exports < InitialExports + MaxExports
    /\ usageStats' =
           [usageStats EXCEPT !.simulations = usageStats.simulations + 1]
    /\ context' = getFinancialContext(inputs, organizationData, mockData)
    /\ UNCHANGED <<organizationData, userProfile, saveFinancialData,
                   financialData, mounted, mounts, timers, interval, inputs,
                   results, mockData, ticks, saves>>

\* The export trigger: onExport.
handleExport ==
    /\ mounted
    /\ usageStats.exports < InitialExports + MaxExports
    /\ usageStats' = [usageStats EXCEPT !.exports = usageStats.exports + 1]
    /\ context' = getFinancialContext(inputs, organizationData, mockData)
    /\ UNCHANGED <<organizationData, userProfile, saveFinancialData,
                   financialData, mounted, mounts, timers, interval, inputs,
                   results, mockData, ticks, saves>>

\* onInputChange={setInputs}: the caller replaces the inputs wholesale.
setInputs ==
    /\ mounted
    /\ \E next \in EditedInputs :
          /\ next # inputs
          /\ inputs' = next
    /\ context' = getFinancialContext(inputs', organizationData, mockData)
    /\ UNCHANGED <<organizationData, userProfile, saveFinancialData,
                   financialData, mounted, mounts, timers, interval, results,
                   usageStats, mockData, ticks, saves>>

\* The effect on [financialData]: the hook delivers a row.
loadFinancialData ==
    /\ mounted
    /\ \E row \in PersistedRows :
          /\ row # financialData
          /\ financialData' = row
          /\ inputs' = loadedInputs(inputs, row)
    /\ context' = getFinancialContext(inputs', organizationData, mockData)
    /\ UNCHANGED <<organizationData, userProfile, saveFinancialData, mounted,
                   mounts, timers, interval, results, usageStats, mockData,
                   ticks, saves>>

\* A held interval fires. The callback's setMockData reaches the instance
\* that registered it; React drops an update of an unmounted instance.
intervalFires(draw) ==
    /\ \E id \in timers :
          mockData' = IF mounted /\ id = interval
                      THEN perturbed(mockData, draw)
                      ELSE mockData
    /\ ticks' = ticks + 1
    /\ context' = IF mounted
                  THEN getFinancialContext(inputs, organizationData, mockData')
                  ELSE context
    /\ UNCHANGED <<organizationData, userProfile, saveFinancialData,
                   financialData, mounted, mounts, timers, interval, inputs,
                   results, usageStats, saves>>

\* The 45 s timer of the event specifications.
tick ==
    /\ ticks < MaxTicks
    /\ \E draw \in Draws \cup {AlternatingDraw} : intervalFires(draw)

\* The 45 s timer of the series specification, which runs long enough for
\* the series to come down to 0; all points draw alike in a callback.
seriesTick ==
    /\ ticks < MaxSeriesTicks
    /\ \E draw \in Draws : intervalFires(draw)

\* A save's promise fulfils.
saveFulfils ==
    /\ \E i \in 1..Len(saves) :
          /\ saves[i].settled = "pending"
          /\ saves' = [saves EXCEPT ![i] = fulfilledSave(saves[i])]
    /\ UNCHANGED <<organizationData, userProfile, saveFinancialData,
                   financialData, mounted, mounts, timers, interval, inputs,
                   results, usageStats, mockData, ticks, context>>

\* Mutant: a rejected save clears the stored results.
saveRejects_clearsResults ==
    /\ \E i \in 1..Len(saves) :
          /\ saves[i].settled = "pending"
          /\ saves' = [saves EXCEPT ![i] = rejectedSave(saves[i])]
    /\ results' = Null
    /\ UNCHANGED <<organizationData, userProfile, saveFinancialData,
                   financialData, mounted, mounts, timers, interval, inputs,
                   usageStats, mockData, ticks, context>>

\* A save's promise rejects.
saveRejects ==
    /\ \E i \in 1..Len(saves) :
          /\ saves[i].settled = "pending"
          /\ saves' = [saves EXCEPT ![i] = rejectedSave(saves[i])]
    /\ UNCHANGED <<organizationData, userProfile, saveFinancialData,
                   financialData, mounted, mounts, timers, interval, inputs,
                   results, usageStats, mockData, ticks, context>>

\* Mutant: the effect returns no cleanup, so the interval stays registered.
unmount_leaksInterval ==
    /\ mounted
    /\ mounted' = FALSE
    /\ UNCHANGED <<organizationData, userProfile, saveFinancialData,
                   financialData, mounts, timers, interval, inputs, results,
                   usageStats, mockData, ticks, saves, context>>

\* Teardown: the effect's cleanup, clearInterval(interval).
unmount ==
    /\ mounted
    /\ mounted' = FALSE
    /\ timers' = timers \ {interval}
    /\ UNCHANGED <<organizationData, userProfile, saveFinancialData,
                   financialData, mounts, interval, inputs, results,
                   usageStats, mockData, ticks, saves, context>>

\* Re-mount: a new instance with the useState initial values, whose effect
\* registers an interval under a fresh id.
mount ==
    /\ ~mounted
    /\ mounts < MaxMounts
    /\ mounted' = TRUE
    /\ mounts' = mounts + 1
    /\ interval' = mounts + 1
    /\ timers' = timers \cup {mounts + 1}
    /\ financialData' = Null
    /\ inputs' = initialInputs(organizationData)
    /\ results' = Null
    /\ usageStats' = initialUsageStats
    /\ mockData' = initialMockData
    /\ context' = getFinancialContext(inputs', organizationData, mockData')
    /\ UNCHANGED <<organizationData, userProfile, saveFinancialData, ticks,
                   saves>>

---------------------------------------------------------------------------
(* Specifications.                                                         *)

\* One component instance, from construction to teardown, with every event
\* it receives; the saves settle before or after the teardown.
Next ==
    \/ runSimulation
    \/ handleExport
    \/ setInputs
    \/ loadFinancialData
    \/ tick
    \/ saveFulfils
    \/ saveRejects
    \/ unmount

Spec == Init /\ [][Next]_vars

\* Mount, teardown and re-mount, with the timer and the triggers.
NextLifecycle ==
    \/ mount
    \/ unmount
    \/ tick
    \/ runSimulation
    \/ handleExport
    \/ setInputs

SpecLifecycle == Init /\ [][NextLifecycle]_vars

\* The series over many timer callbacks, interleaved with the triggers.
InitSeries ==
    /\ Init
    /\ organizationData = NoOrganizationData
    /\ userProfile
    /\ saveFinancialData

NextSeries ==
    \/ seriesTick
    \/ runSimulation
    \/ handleExport
    \/ setInputs

SpecSeries == InitSeries /\ [][NextSeries]_vars

\* The projection and the context on every profile and on a grid of
\* inputs: the state a caller reaches with setInputs, before the run.
InitProjection ==
    /\ organizationData \in OrganizationChoices
    /\ userProfile \in BOOLEAN
    /\ saveFinancialData \in BOOLEAN
    /\ financialData = Null
    /\ mounted = TRUE
    /\ mounts = 1
    /\ timers = {1}
    /\ interval = 1
    /\ inputs \in ProjectionInputs
    /\ results = Null
    /\ usageStats = initialUsageStats
    /\ mockData = initialMockData
    /\ ticks = 0
    /\ saves = <<>>
    /\ context = getFinancialContext(inputs, organizationData, mockData)

NextProjection == runSimulation

SpecProjection == InitProjection /\ [][NextProjection]_vars

---------------------------------------------------------------------------
(* Properties of the projection and the context (SpecProjection).          *)

\* The rule table of the organization profile, by organization type.
ProfileTable(type) ==
    IF type = "startup"
    THEN [quantityMultiplier |-> Rat(12, 10), baseSalary |-> 70000,
          baseFixedCost |-> 300000]
    ELSE IF type = "event"
    THEN [quantityMultiplier |-> Rat(8, 10), baseSalary |-> 60000,
          baseFixedCost |-> 200000]
    ELSE [quantityMultiplier |-> Rat(10, 10), baseSalary |-> 60000,
          baseFixedCost |-> 300000]

\* The table's row of the current organization.
ProfileRow == ProfileTable(organizationType(organizationData))

\* floor(100 * quantityMultiplier) of the current organization's row.
RowQuantity == Floor(RatTimes(ProfileRow.quantityMultiplier, 100))

\* The expenses formula on the current inputs and the table's row.
RowExpenses ==
    ProfileRow.baseFixedCost + ProfileRow.baseSalary * inputs.employees
        + inputs.marketingSpend + inputs.miscExpenses

\* The inputs of the startup scenario.
ScenarioInputs ==
    [employees |-> 5, marketingSpend |-> 200000, productPrice |-> 2999,
     miscExpenses |-> 150000, currentFunds |-> 5000000,
     customParameters |-> <<>>]

\* C1: on the same inputs and the same organization type tag, the context
\* and the stored projection have the same revenue, the same expenses and
\* the same profit margin, and in both the revenue is the product price
\* times floor(100 * multiplier): the multiplier is applied once.
ContextMatchesProjection ==
    results # Null =>
        /\ context.projectedRevenue = results.revenue
        /\ context.expenses = results.expenses
        /\ context.profitMargin = results.profitMargin
        /\ results.revenue = inputs.productPrice * RowQuantity
        /\ context.projectedRevenue = inputs.productPrice * RowQuantity

\* C1 witness: a startup's run with a positive price, where a second
\* application of 1.2 would show.
ContextMatchesProjectionWitness ==
    /\ results # Null
    /\ organizationType(organizationData) = "startup"
    /\ inputs.productPrice = 2999
    /\ context.projectedRevenue = 359880
    /\ results.revenue = 359880

\* C2: the stored projection has revenue = productPrice * floor(100 *
\* multiplier), expenses = baseFixedCost + baseSalary * employees +
\* marketingSpend + miscExpenses, netProfit = revenue - expenses, runway =
\* floor(currentFunds / expenses) when expenses > 0, profitMargin =
\* (netProfit / revenue) * 100 when revenue > 0 and 0 when revenue = 0; the
\* startup scenario gives 359880, 1000000, -640120 and a runway of 5.
ProjectionFormulas ==
    results # Null =>
        /\ results.revenue = inputs.productPrice * RowQuantity
        /\ results.expenses = RowExpenses
        /\ results.netProfit = results.revenue - results.expenses
        /\ results.expenses > 0 =>
               results.runway
                   = Finite(inputs.currentFunds \div results.expenses)
        /\ results.revenue > 0 =>
               results.profitMargin
                   = Rat(100 * results.netProfit, results.revenue)
        /\ results.revenue = 0 => results.profitMargin = Rat(0, 1)
        /\ (organizationType(organizationData) = "startup"
                /\ inputs = ScenarioInputs) =>
               /\ results.revenue = 359880
               /\ results.expenses = 1000000
               /\ results.netProfit = -640120
               /\ results.runway = Finite(5)

\* C2 witness: the startup scenario has run.
ProjectionFormulasWitness ==
    /\ results # Null
    /\ organizationType(organizationData) = "startup"
    /\ inputs = ScenarioInputs
    /\ results.netProfit = -640120
    /\ results.runway = Finite(5)

\* C3: the constants runSimulation and getFinancialContext use are the
\* table's row of the organization type: (1.2, 70000, 300000) for
\* "startup", (0.8, 60000, 200000) for "event" and (1.0, 60000, 300000) for
\* any other tag, a missing tag and missing organization data; the stored
\* projection and the context are computed from that row.
ProfileFollowsTable ==
    /\ baseMultiplier(organizationData) = ProfileRow.quantityMultiplier
    /\ baseSalary(organizationData) = ProfileRow.baseSalary
    /\ baseFixedCost(organizationData) = ProfileRow.baseFixedCost
    /\ contextBaseMultiplier(organizationData) = ProfileRow.quantityMultiplier
    /\ contextBaseSalary(organizationData) = ProfileRow.baseSalary
    /\ contextBaseFixedCost(organizationData) = ProfileRow.baseFixedCost
    /\ context.expenses = RowExpenses
    /\ context.projectedRevenue = inputs.productPrice * RowQuantity
    /\ results # Null =>
           /\ results.expenses = RowExpenses
           /\ results.revenue = inputs.productPrice * RowQuantity

\* C3 witness: a run without organization data, which used the default
\* row.
ProfileFollowsTableWitness ==
    /\ results # Null
    /\ ~organizationData.present
    /\ inputs.employees = 5
    /\ results.expenses
           = 300000 + 60000 * 5 + inputs.marketingSpend + inputs.miscExpenses
    /\ results.revenue = inputs.productPrice * 100

\* C4 as claimed: the runway is infinite if and only if expenses = 0, and
\* floor(currentFunds / expenses) whenever expenses is not 0.
RunwayInfiniteIffZeroExpenses ==
    results # Null =>
        /\ (results.runway = Infinity) <=> (results.expenses = 0)
        /\ results.expenses # 0 =>
               results.runway
                   = Finite(Floor(Rat(inputs.currentFunds, results.expenses)))

\* C4 as amended: the runway is infinite if and only if expenses <= 0, and
\* floor(currentFunds / expenses) whenever expenses > 0.
RunwayInfiniteIffNoPositiveExpenses ==
    results # Null =>
        /\ (results.runway = Infinity) <=> (results.expenses <= 0)
        /\ results.expenses > 0 =>
               results.runway
                   = Finite(inputs.currentFunds \div results.expenses)

\* C4 witness: a run whose expenses are negative and whose runway is
\* infinite.
RunwayInfiniteWitness ==
    /\ results # Null
    /\ results.expenses < 0
    /\ results.runway = Infinity

\* C10: with employees, marketingSpend, miscExpenses and currentFunds all
\* >= 0, the expenses are at least the row's baseFixedCost, which is at
\* least 200000, so they are not 0 and the runway is a finite integer >= 0.
NonNegativeInputsFiniteRunway ==
    (/\ results # Null
     /\ inputs.employees >= 0
     /\ inputs.marketingSpend >= 0
     /\ inputs.miscExpenses >= 0
     /\ inputs.currentFunds >= 0) =>
        /\ results.expenses >= ProfileRow.baseFixedCost
        /\ ProfileRow.baseFixedCost >= 200000
        /\ results.expenses # 0
        /\ results.runway.finite
        /\ results.runway.value \in Nat

\* C10 witness: an event organization's run on zero inputs: the expenses
\* are the least possible, 200000.
NonNegativeInputsWitness ==
    /\ results # Null
    /\ organizationType(organizationData) = "event"
    /\ inputs.employees = 0
    /\ inputs.marketingSpend = 0
    /\ inputs.miscExpenses = 0
    /\ inputs.currentFunds = 0
    /\ results.expenses = 200000
    /\ results.runway = Finite(0)

---------------------------------------------------------------------------
(* Properties of the series (SpecSeries).                                  *)

\* C5: after any number of timer callbacks, interleaved with runs, exports
\* and input changes, the series has 8 points, its labels are Jan..Aug in
\* the original order, and every revenue and every expenses is >= 0.
SeriesKeepsShape ==
    /\ Len(mockData) = 8
    /\ [i \in 1..8 |-> mockData[i].month]
           = <<"Jan", "Feb", "Mar", "Apr", "May", "Jun", "Jul", "Aug">>
    /\ \A i \in 1..8 : mockData[i].revenue >= 0 /\ mockData[i].expenses >= 0

\* C5 witness: a revenue and an expenses have come down to 0, and a run,
\* an export and an input change have happened in between.
SeriesKeepsShapeWitness ==
    /\ \E i \in 1..8 : mockData[i].revenue = 0
    /\ \E i \in 1..8 : mockData[i].expenses = 0
    /\ results # Null
    /\ usageStats.exports > InitialExports
    /\ inputs.customParameters # <<>>

---------------------------------------------------------------------------
(* Properties of the events of one instance (Spec).                        *)

\* C6: a run step increases simulations by exactly 1 and leaves exports,
\* an export step increases exports by exactly 1 and leaves simulations,
\* every other step leaves both, and neither counter decreases.
UsageCountersCount ==
    [][ /\ usageStats'.simulations >= usageStats.simulations
        /\ usageStats'.exports >= usageStats.exports
        /\ runSimulation =>
               /\ usageStats'.simulations = usageStats.simulations + 1
               /\ usageStats'.exports = usageStats.exports
        /\ handleExport =>
               /\ usageStats'.exports = usageStats.exports + 1
               /\ usageStats'.simulations = usageStats.simulations
        /\ usageStats' # usageStats =>
               /\ runSimulation \/ handleExport
               /\ ~(setInputs \/ loadFinancialData \/ tick \/ saveFulfils
                        \/ saveRejects \/ unmount) ]_vars

\* C6 witness: one run and one export counted, with a timer callback and a
\* load among the other events.
UsageCountersWitness ==
    /\ usageStats.simulations = InitialSimulations + 1
    /\ usageStats.exports = InitialExports + 1
    /\ ticks > 0
    /\ financialData # Null

\* The saves runSimulation starts on one run.
SavesPerRun ==
    (IF userProfile THEN 1 ELSE 0) + (IF saveFinancialData THEN 1 ELSE 0)

\* C8: a rejected save is caught (its chain fulfils after console.error),
\* the step in which it rejects leaves results and the counters as they
\* are and starts no save, the saves started are those of the runs, and
\* results stay the results the last run handed to saveSimulation.
FailedSaveLeavesResults ==
    /\ [](\A i \in 1..Len(saves) :
              saves[i].settled = "rejected" =>
                  /\ saves[i].chain = "fulfilled"
                  /\ saves[i].console = "error")
    /\ [](Len(saves)
              = SavesPerRun * (usageStats.simulations - InitialSimulations))
    /\ []((userProfile /\ Len(saves) > 0) =>
              results = saves[Len(saves) + 1 - SavesPerRun].payload.results)
    /\ [][saveRejects =>
              /\ results' = results
              /\ usageStats' = usageStats
              /\ Len(saves') = Len(saves)]_vars

\* C8 witness: both saves of a run have rejected and the stored results
\* are those of the run.
FailedSaveWitness ==
    /\ Len(saves) = 2
    /\ saves[1].kind = "saveSimulation"
    /\ saves[2].kind = "saveFinancialData"
    /\ saves[1].settled = "rejected"
    /\ saves[2].settled = "rejected"
    /\ results = saves[1].payload.results
    /\ usageStats.simulations = InitialSimulations + 1

\* C9: a run, an export, a timer callback, a load of persisted data, a
\* settled save and the teardown leave customParameters as they are; only
\* the caller's replacement of the inputs changes them.
CustomParametersPreserved ==
    [][ inputs'.customParameters # inputs.customParameters =>
            /\ setInputs
            /\ ~(runSimulation \/ handleExport \/ tick \/ loadFinancialData
                     \/ saveFulfils \/ saveRejects \/ unmount) ]_vars

\* C9 witness: the load has replaced numeric fields of inputs whose custom
\* parameters the caller had set, after a run, an export and a timer
\* callback.
CustomParametersWitness ==
    /\ financialData # Null
    /\ inputs.currentFunds = 900000
    /\ inputs.employees = 2
    /\ Len(inputs.customParameters) = 2
    /\ results # Null
    /\ usageStats.exports > InitialExports
    /\ ticks > 0

---------------------------------------------------------------------------
(* Properties of the timer (SpecLifecycle).                                *)

\* C7: at most one interval is registered at any time, a mounted instance
\* holds exactly its own, the teardown cancels it, and no step of a
\* torn-down instance changes the series.
OneTimerPerInstance ==
    /\ [](/\ Cardinality(timers) <= 1
          /\ mounted => timers = {interval}
          /\ ~mounted => timers = {})
    /\ [][unmount => interval \notin timers']_vars
    /\ [][(~mounted /\ ~mounted') => mockData' = mockData]_vars

\* C7 witness: the second instance has been torn down after a timer
\* callback.
OneTimerWitness ==
    /\ mounts = 2
    /\ ~mounted
    /\ interval = 2
    /\ ticks > 0

===========================================================================
